---- MODULE Spec2Model ----
(***************************************************************************)
(* The authentication routes of termi-pics (server/app/routes/auth.py):    *)
(* signup, login, continue_with_google, verify_token, refresh_token, and   *)
(* the store client they open (server/app/utils/supabase.py).              *)
(*                                                                         *)
(* The token codec (app/utils/auth.py) and the table wrapper               *)
(* (app/utils/db.py) are imported by auth.py; their definitions below      *)
(* follow the documented contract of those modules.                        *)
(***************************************************************************)
EXTENDS Integers, FiniteSets, Sequences, TLC

VARIABLES
    store,      \* the user table: a set of user records
    now,        \* the clock the token codec reads
    pending,    \* authorization codes of /google requests suspended at the await of line 100
    resp,       \* the last completed request: what was asked, what was answered
    chain       \* how many successful refresh calls in a row re-presented the echoed refresh token

vars == <<store, now, pending, resp, chain>>

-----------------------------------------------------------------------------
(* Bounds of the model *)

MaxTime == 2
MaxChain == 2

-----------------------------------------------------------------------------
(* Values *)

None == "None"

\* An email address is its local part and its domain: "a@x.com" is <<"a", "x.com">>.
Emails == {<<"a", "x.com">>, <<"b", "x.com">>}
NoEmail == <<>>
Usernames == {"a", "alice"}
Passwords == {"pw1", "pw2"}
StoredUids == {"u1", "u2"}
FreshUids == {"u3", "u4"}
Uids == StoredUids \cup FreshUids
Codes == {"c1", "c2"}
Pictures == {"pic"}

\* The one-way hash of the password verifier, and the empty hash of a record without password.
Hash(password) == <<"hash", password>>
NoHash == <<>>

verify_password(password, hashed) == hashed = Hash(password)

-----------------------------------------------------------------------------
(* Token codec *)

AccessTTL == 1
RefreshTTL == 2

NoToken == [user_uid |-> None, exp |-> 0, sig |-> "absent"]
MalformedToken == [user_uid |-> None, exp |-> 0, sig |-> "malformed"]

\* Every token string a client can present: signed by the process secret ("ok"),
\* carrying another signature ("bad"), or not a token at all.
Tokens ==
    [user_uid : StoredUids, exp : 0 .. (MaxTime + RefreshTTL), sig : {"ok", "bad"}]
        \cup {MalformedToken}

create_access_token(user_uid, t) == [user_uid |-> user_uid, exp |-> t + AccessTTL, sig |-> "ok"]

create_refresh_token(user_uid, t) == [user_uid |-> user_uid, exp |-> t + RefreshTTL, sig |-> "ok"]

\* The outcome of validation at time t: the payload, or the error that is raised.
validate_token(token, t) ==
    IF token.sig \notin {"ok", "bad"}
    THEN [ok |-> FALSE, error |-> "MalformedToken", user_uid |-> None]
    ELSE IF token.sig # "ok"
    THEN [ok |-> FALSE, error |-> "InvalidToken", user_uid |-> None]
    ELSE IF t > token.exp
    THEN [ok |-> FALSE, error |-> "ExpiredToken", user_uid |-> None]
    ELSE [ok |-> TRUE, error |-> None, user_uid |-> token.user_uid]

-----------------------------------------------------------------------------
(* Requests and responses *)

NoIdToken == [present |-> FALSE, sig_ok |-> FALSE, aud_ok |-> FALSE, email |-> NoEmail, picture |-> None]
IdTokens == [present : {TRUE}, sig_ok : BOOLEAN, aud_ok : BOOLEAN,
             email : Emails \cup {NoEmail}, picture : Pictures]

\* What the provider's token endpoint answers to the POST of line 100: an error
\* status, or a body with or without an id_token.
NoReply == [http_ok |-> FALSE, id_token |-> NoIdToken]
ProviderReplies == {NoReply} \cup [http_ok : {TRUE}, id_token : IdTokens \cup {NoIdToken}]

NoReq == [email |-> NoEmail, username |-> None, password |-> None,
          token |-> NoToken, code |-> None, reply |-> NoReply]

NoBody == [access_token |-> NoToken, refresh_token |-> NoToken, user_uid |-> None]

\* A completed request. stage is the last place of the handler that ran;
\* conn is what became of the store client of the request.
Response(op, req, status, detail, body, stage, conn) ==
    [op |-> op, req |-> req, at |-> now, status |-> status, detail |-> detail,
     body |-> body, stage |-> stage, conn |-> conn]

NoResp == [op |-> "none", req |-> NoReq, at |-> 0, status |-> None, detail |-> None,
           body |-> NoBody, stage |-> None, conn |-> "none"]

-----------------------------------------------------------------------------
(* The store client *)

\* supabase_client is a function whose body holds a yield and which carries no
\* decorator: a call returns a generator object and runs none of the body
\* (create_client is first called when the generator is advanced).
supabase_client == [type |-> "generator", started |-> FALSE]

db_client == supabase_client

\* `with obj as client:` first looks up __enter__ and __exit__ on the type of
\* obj; a generator object has neither, and the statement raises TypeError
\* before its block runs.
ContextManagerProtocol(obj) == obj.type = "contextmanager"

\* What became of the client when the block of a `with` that was entered ends:
\* the generator resumes into its finally clause (`pass`) and the scope is over.
ClientAfterExit == "released"

-----------------------------------------------------------------------------
(* The user table *)

UserRecord(user_uid, email, username, password, auth_provider, avatar, last_active) ==
    [user_uid |-> user_uid, email |-> email, username |-> username, password |-> password,
     auth_provider |-> auth_provider, avatar |-> avatar, last_active |-> last_active]

is_email_exists(email, auth_provider) ==
    \E r \in store : r.email = email /\ r.auth_provider = auth_provider

is_username_exists(username, auth_provider) ==
    \E r \in store : r.username = username /\ r.auth_provider = auth_provider

\* The records a lookup by email alone can return.
get_user_creds(email) == {r \in store : r.email = email}

get_user_uid(email, auth_provider) ==
    {r.user_uid : r \in {q \in store : q.email = email /\ q.auth_provider = auth_provider}}

insert_new_user(user_uid, email, username, password, auth_provider, avatar) ==
    store \cup {UserRecord(user_uid, email, username,
                           IF password = None THEN NoHash ELSE Hash(password),
                           auth_provider, avatar, now)}

update_last_active(user_uid) ==
    {IF r.user_uid = user_uid THEN [r EXCEPT !.last_active = now] ELSE r : r \in store}

UnusedUids == FreshUids \ {r.user_uid : r \in store}

\* (email, auth_provider) is unique, and username is unique among "email" records.
StoreIsUnique(s) ==
    \A r, q \in s :
        /\ (r.email = q.email /\ r.auth_provider = q.auth_provider) => r = q
        /\ (r.username = q.username /\ r.auth_provider = "email" /\ q.auth_provider = "email")
              => r = q

\* The tables the service can start on: at most one record per provider.
EmailRecords ==
    {UserRecord("u1", e, u, Hash("pw1"), "email", None, 0) : e \in Emails, u \in Usernames}
GoogleRecords ==
    {UserRecord("u2", e, e[1], NoHash, "google", p, 0) : e \in Emails, p \in {"pic"}}
InitStores ==
    {s \in SUBSET (EmailRecords \cup GoogleRecords) :
        /\ StoreIsUnique(s)
        /\ \A r, q \in s : r.user_uid = q.user_uid => r = q}

-----------------------------------------------------------------------------
(* State machine *)

Init ==
    /\ store \in InitStores
    /\ now = 0
    /\ pending = {}
    /\ resp = NoResp
    /\ chain = 0

\* Time passes.
Tick ==
    /\ now < MaxTime
    /\ now' = now + 1
    /\ UNCHANGED <<store, pending, resp, chain>>

\* POST /signup
signup(email, username, password) ==
    LET req == [NoReq EXCEPT !.email = email, !.username = username, !.password = password]
        Reply(status, detail, body, stage, conn) ==
            Response("signup", req, status, detail, body, stage, conn)
    IN  /\ IF ~ContextManagerProtocol(db_client)
           THEN /\ resp' = Reply("500", "TypeError", NoBody, "with", "none")
                /\ store' = store
           ELSE IF is_email_exists(email, "email")
           THEN /\ resp' = Reply("400", "Email already registered", NoBody,
                                 "is_email_exists", ClientAfterExit)
                /\ store' = store
           ELSE IF is_username_exists(username, "email")
           THEN /\ resp' = Reply("400", "Username already taken", NoBody,
                                 "is_username_exists", ClientAfterExit)
                /\ store' = store
           ELSE \E user_uid \in UnusedUids :
                /\ store' = insert_new_user(user_uid, email, username, password, "email", None)
                /\ resp' = Reply("201", None, [NoBody EXCEPT !.user_uid = user_uid],
                                 "insert_new_user", ClientAfterExit)
        /\ chain' = 0
        /\ UNCHANGED <<now, pending>>

\* POST /login
login(email, password) ==
    LET req == [NoReq EXCEPT !.email = email, !.password = password]
        Reply(status, detail, body, stage, conn) ==
            Response("login", req, status, detail, body, stage, conn)
    IN  /\ IF ~ContextManagerProtocol(supabase_client)
           THEN /\ resp' = Reply("500", "TypeError", NoBody, "with", "none")
                /\ store' = store
           ELSE IF get_user_creds(email) = {}
           THEN /\ resp' = Reply("404", "User not found", NoBody,
                                 "get_user_creds", ClientAfterExit)
                /\ store' = store
           ELSE \E user_creds \in get_user_creds(email) :
                IF ~verify_password(password, user_creds.password)
                THEN /\ resp' = Reply("401", "Incorrect password", NoBody,
                                      "verify_password", ClientAfterExit)
                     /\ store' = store
                ELSE LET user_uid == user_creds.user_uid IN
                     /\ store' = update_last_active(user_uid)
                     /\ resp' = Reply("200", None,
                                      [access_token |-> create_access_token(user_uid, now),
                                       refresh_token |-> create_refresh_token(user_uid, now),
                                       user_uid |-> user_uid],
                                      "update_last_active", ClientAfterExit)
        /\ chain' = 0
        /\ UNCHANGED <<now, pending>>

\* POST /google, up to the await of the provider's answer.
google_exchange(code) ==
    /\ code \notin pending
    /\ pending' = pending \cup {code}
    /\ UNCHANGED <<store, now, resp, chain>>

\* id_token.verify_oauth2_token: the claims of the assertion when its signature
\* and its audience check out, ValueError otherwise.
verify_oauth2_token(id_token_value) == id_token_value.sig_ok /\ id_token_value.aud_ok

\* continue_with_google reading the claims of the assertion without verifying it.
continue_with_google_unverified(code, reply) ==
    LET req == [NoReq EXCEPT !.code = code, !.reply = reply]
        Reply(status, detail, body, stage, conn) ==
            Response("google", req, status, detail, body, stage, conn)
    IN  /\ code \in pending
        /\ pending' = pending \ {code}
        /\ IF ~reply.http_ok
           THEN resp' = Reply("500", "HTTPStatusError", NoBody, "raise_for_status", "none")
           ELSE IF ~reply.id_token.present
           THEN resp' = Reply("400", "Missing id_token in response.", NoBody,
                              "id_token", "none")
           ELSE resp' = Reply("500", "TypeError", NoBody, "with", "none")
        /\ store' = store
        /\ chain' = 0
        /\ UNCHANGED now

\* POST /google, from the provider's answer to the response.
continue_with_google(code, reply) ==
    LET req == [NoReq EXCEPT !.code = code, !.reply = reply]
        Reply(status, detail, body, stage, conn) ==
            Response("google", req, status, detail, body, stage, conn)
        id_token_value == reply.id_token
        email == id_token_value.email
    IN  /\ code \in pending
        /\ pending' = pending \ {code}
        /\ IF ~reply.http_ok
           THEN /\ resp' = Reply("500", "HTTPStatusError", NoBody, "raise_for_status", "none")
                /\ store' = store
           ELSE IF ~id_token_value.present
           THEN /\ resp' = Reply("400", "Missing id_token in response.", NoBody,
                                 "id_token", "none")
                /\ store' = store
           ELSE IF ~verify_oauth2_token(id_token_value)
           THEN /\ resp' = Reply("500", "ValueError", NoBody, "verify_oauth2_token", "none")
                /\ store' = store
           ELSE IF ~ContextManagerProtocol(supabase_client)
           THEN /\ resp' = Reply("500", "TypeError", NoBody, "with", "none")
                /\ store' = store
           ELSE IF is_email_exists(email, "google")
           THEN \E user_uid \in get_user_uid(email, "google") :
                /\ store' = update_last_active(user_uid)
                /\ resp' = Reply("201", None,
                                 [access_token |-> create_access_token(user_uid, now),
                                  refresh_token |-> create_refresh_token(user_uid, now),
                                  user_uid |-> user_uid],
                                 "update_last_active", ClientAfterExit)
           ELSE IF email = NoEmail
           THEN /\ resp' = Reply("500", "AttributeError", NoBody, "split", ClientAfterExit)
                /\ store' = store
           ELSE \E user_uid \in UnusedUids :
                LET username == email[1] IN
                /\ store' = insert_new_user(user_uid, email, username, None, "google",
                                            id_token_value.picture)
                /\ resp' = Reply("201", None,
                                 [access_token |-> create_access_token(user_uid, now),
                                  refresh_token |-> create_refresh_token(user_uid, now),
                                  user_uid |-> user_uid],
                                 "insert_new_user", ClientAfterExit)
        /\ chain' = 0
        /\ UNCHANGED now

\* verify_token catching the validation error and answering with the uid the token names.
verify_token_swallows(token) ==
    LET req == [NoReq EXCEPT !.token = token]
    IN  /\ resp' = Response("verify_token", req, "200", None,
                            [NoBody EXCEPT !.user_uid = token.user_uid],
                            "return", "none")
        /\ chain' = 0
        /\ UNCHANGED <<store, now, pending>>

\* verify_token stamping last-active of the user it verified.
verify_token_touches(token) ==
    LET req == [NoReq EXCEPT !.token = token]
        payload == validate_token(token, now)
    IN  /\ IF ~payload.ok
           THEN /\ resp' = Response("verify_token", req, "error", payload.error, NoBody,
                                    "validate_token", "none")
                /\ store' = store
           ELSE /\ resp' = Response("verify_token", req, "200", None,
                                    [NoBody EXCEPT !.user_uid = payload.user_uid],
                                    "return", "none")
                /\ store' = update_last_active(payload.user_uid)
        /\ chain' = 0
        /\ UNCHANGED <<now, pending>>

\* POST /verify-token
verify_token(token) ==
    LET req == [NoReq EXCEPT !.token = token]
        payload == validate_token(token, now)
    IN  /\ IF ~payload.ok
           THEN resp' = Response("verify_token", req, "error", payload.error, NoBody,
                                 "validate_token", "none")
           ELSE resp' = Response("verify_token", req, "200", None,
                                 [NoBody EXCEPT !.user_uid = payload.user_uid],
                                 "return", "none")
        /\ chain' = 0
        /\ UNCHANGED <<store, now, pending>>

\* refresh_token minting a new refresh token instead of echoing the one presented.
refresh_token_rotates(token) ==
    LET req == [NoReq EXCEPT !.token = token]
        payload == validate_token(token, now)
        user_uid == payload.user_uid
    IN  /\ IF ~payload.ok
           THEN resp' = Response("refresh_token", req, "error", payload.error, NoBody,
                                 "validate_token", "none")
           ELSE resp' = Response("refresh_token", req, "200", None,
                                 [access_token |-> create_access_token(user_uid, now),
                                  refresh_token |-> create_refresh_token(user_uid, now),
                                  user_uid |-> user_uid],
                                 "return", "none")
        /\ chain' = 0
        /\ UNCHANGED <<store, now, pending>>

\* refresh_token catching the validation error and minting for the uid the token names.
refresh_token_swallows(token) ==
    LET req == [NoReq EXCEPT !.token = token]
        user_uid == token.user_uid
    IN  /\ resp' = Response("refresh_token", req, "200", None,
                            [access_token |-> create_access_token(user_uid, now),
                             refresh_token |-> token,
                             user_uid |-> user_uid],
                            "return", "none")
        /\ chain' = 0
        /\ UNCHANGED <<store, now, pending>>

\* refresh_token refusing a token whose expiry shows it was minted as an access token.
refresh_token_refuses_access(token) ==
    LET req == [NoReq EXCEPT !.token = token]
        payload == validate_token(token, now)
        user_uid == payload.user_uid
    IN  /\ IF ~payload.ok
           THEN resp' = Response("refresh_token", req, "error", payload.error, NoBody,
                                 "validate_token", "none")
           ELSE IF token.exp - RefreshTTL < 0
           THEN resp' = Response("refresh_token", req, "error", "InvalidToken", NoBody,
                                 "validate_token", "none")
           ELSE resp' = Response("refresh_token", req, "200", None,
                                 [access_token |-> create_access_token(user_uid, now),
                                  refresh_token |-> token,
                                  user_uid |-> user_uid],
                                 "return", "none")
        /\ chain' = 0
        /\ UNCHANGED <<store, now, pending>>

\* refresh_token minting the access token without the user_uid of the payload.
refresh_token_mints_blank(token) ==
    LET req == [NoReq EXCEPT !.token = token]
        payload == validate_token(token, now)
        user_uid == payload.user_uid
    IN  /\ IF ~payload.ok
           THEN resp' = Response("refresh_token", req, "error", payload.error, NoBody,
                                 "validate_token", "none")
           ELSE resp' = Response("refresh_token", req, "200", None,
                                 [access_token |-> create_access_token(None, now),
                                  refresh_token |-> token,
                                  user_uid |-> user_uid],
                                 "return", "none")
        /\ chain' = 0
        /\ UNCHANGED <<store, now, pending>>

\* POST /refresh-token/
refresh_token(token) ==
    LET req == [NoReq EXCEPT !.token = token]
        payload == validate_token(token, now)
        user_uid == payload.user_uid
        again == resp.op = "refresh_token" /\ resp.status = "200"
                 /\ resp.body.refresh_token = token
    IN  /\ IF ~payload.ok
           THEN /\ resp' = Response("refresh_token", req, "error", payload.error, NoBody,
                                    "validate_token", "none")
                /\ chain' = 0
           ELSE /\ resp' = Response("refresh_token", req, "200", None,
                                    [access_token |-> create_access_token(user_uid, now),
                                     refresh_token |-> token,
                                     user_uid |-> user_uid],
                                    "return", "none")
                /\ chain' = IF again /\ chain < MaxChain THEN chain + 1
                            ELSE IF again THEN chain ELSE 1
        /\ UNCHANGED <<store, now, pending>>

Next ==
    \/ Tick
    \/ \E email \in Emails, username \in Usernames, password \in Passwords :
          signup(email, username, password)
    \/ \E email \in Emails, password \in Passwords : login(email, password)
    \/ \E code \in Codes : google_exchange(code)
    \/ \E code \in Codes, reply \in ProviderReplies : continue_with_google(code, reply)
    \/ \E token \in Tokens : verify_token(token)
    \/ \E token \in Tokens : refresh_token(token)

Spec == Init /\ [][Next]_vars

-----------------------------------------------------------------------------
(* Properties *)

\* The answers the handlers give, by status and detail.
IsIncorrectPassword(r) == r.status = "401" /\ r.detail = "Incorrect password"
IsDuplicateEmail(r) == r.status = "400" /\ r.detail = "Email already registered"

\* The assertion of a provider reply was obtained and verified.
Verified(reply) ==
    /\ reply.http_ok
    /\ reply.id_token.present
    /\ reply.id_token.sig_ok
    /\ reply.id_token.aud_ok

\* A table with the last-active stamps erased.
WithoutLastActive(s) == {[r EXCEPT !.last_active = 0] : r \in s}

\* C1: a login with the password of an existing record answers 200 with an
\* access token and a refresh token that both embed the user_uid of that
\* record; a login with a wrong password for an existing record answers 401
\* Incorrect password, carries no token and leaves the table, last-active
\* included, as it was.
C1_LoginContract ==
    [][\A email \in Emails, password \in Passwords :
          login(email, password) =>
              LET creds == {r \in store : r.email = email /\ r.password # NoHash}
                  right == {r \in creds : verify_password(password, r.password)}
              IN  /\ right # {} =>
                        /\ resp'.status = "200"
                        /\ \E r \in right :
                              /\ resp'.body.user_uid = r.user_uid
                              /\ resp'.body.access_token.sig = "ok"
                              /\ resp'.body.access_token.user_uid = r.user_uid
                              /\ resp'.body.refresh_token.sig = "ok"
                              /\ resp'.body.refresh_token.user_uid = r.user_uid
                  /\ (creds # {} /\ right = {}) =>
                        /\ IsIncorrectPassword(resp')
                        /\ resp'.body = NoBody
                        /\ store' = store]_vars

\* C2: a signup whose email is already held by an "email" record answers 400
\* Email already registered, whatever the username, and the table is unchanged.
C2_DuplicateEmail ==
    [][\A email \in Emails, username \in Usernames, password \in Passwords :
          (signup(email, username, password) /\ is_email_exists(email, "email")) =>
              /\ IsDuplicateEmail(resp')
              /\ store' = store]_vars

\* C3: a signup whose email and username are both unused among "email" records
\* answers 201 with the new user_uid, and the table gains exactly one record,
\* of provider "email", every other record unchanged.
C3_SignupCreatesOne ==
    [][\A email \in Emails, username \in Usernames, password \in Passwords :
          (/\ signup(email, username, password)
           /\ ~is_email_exists(email, "email")
           /\ ~is_username_exists(username, "email")) =>
              /\ resp'.status = "201"
              /\ \E r \in store' \ store :
                    /\ store' = store \cup {r}
                    /\ r.auth_provider = "email"
                    /\ r.email = email
                    /\ r.username = username
                    /\ r.user_uid = resp'.body.user_uid]_vars

\* C4: a refresh call that presents a token valid at the time of the call
\* answers 200 with the user_uid of that token, an access token minted at
\* that time which validates to the same user_uid, and as refresh_token the
\* very token that was presented, however many refresh calls came before.
C4_RefreshEchoes ==
    (resp.op = "refresh_token" /\ validate_token(resp.req.token, resp.at).ok) =>
        LET u == resp.req.token.user_uid IN
        /\ resp.status = "200"
        /\ resp.body.user_uid = u
        /\ resp.body.refresh_token = resp.req.token
        /\ resp.body.access_token = create_access_token(u, resp.at)
        /\ validate_token(resp.body.access_token, resp.at).ok
        /\ validate_token(resp.body.access_token, resp.at).user_uid = u

\* The same refresh token has been presented and echoed MaxChain + 1 times in a row.
C4_Witness ==
    /\ chain = MaxChain
    /\ resp.op = "refresh_token"
    /\ resp.status = "200"
    /\ resp.body.refresh_token = resp.req.token
    /\ resp.at > 0

\* C5: the OAuth login of a verified email that no "google" record holds adds
\* exactly one "google" record, with that email and the user_uid it answers;
\* the OAuth login of a verified email that a "google" record holds answers
\* that record's user_uid, adds no record, and changes nothing in the table
\* but the last-active stamp of that record.
C5_OAuthIdempotent ==
    [][\A code \in Codes, reply \in ProviderReplies :
          (/\ continue_with_google(code, reply)
           /\ Verified(reply)
           /\ reply.id_token.email # NoEmail) =>
              LET email == reply.id_token.email
                  held == {r \in store : r.email = email /\ r.auth_provider = "google"}
              IN  /\ resp'.status = "201"
                  /\ held = {} =>
                        \E r \in store' \ store :
                            /\ store' = store \cup {r}
                            /\ r.email = email
                            /\ r.auth_provider = "google"
                            /\ r.user_uid = resp'.body.user_uid
                  /\ held # {} =>
                        /\ \E r \in held : resp'.body.user_uid = r.user_uid
                        /\ Cardinality(store') = Cardinality(store)
                        /\ WithoutLastActive(store') = WithoutLastActive(store)
                        /\ \A r \in store \ held : r \in store']_vars

\* C7: verify-token and refresh-token, given a token of the process's own
\* signature after its expiry, answer ExpiredToken, and given a token of
\* another signature answer InvalidToken; either way the answer carries no
\* user_uid and no token.
C7_ValidationAborts ==
    resp.op \in {"verify_token", "refresh_token"} =>
        /\ (resp.req.token.sig = "ok" /\ resp.at > resp.req.token.exp) =>
              /\ resp.detail = "ExpiredToken"
              /\ resp.status # "200"
              /\ resp.body = NoBody
        /\ resp.req.token.sig = "bad" =>
              /\ resp.detail = "InvalidToken"
              /\ resp.status # "200"
              /\ resp.body = NoBody

\* A refresh call was refused for an expired token that names a user.
C7_Witness ==
    /\ resp.op = "refresh_token"
    /\ resp.req.token.sig = "ok"
    /\ resp.at > resp.req.token.exp
    /\ resp.detail = "ExpiredToken"

\* C8: an OAuth login whose verified assertion carries no email is refused
\* as a client error (400) before the store section of the handler: no
\* lookup, no insert, no record, no token.
C8_MissingEmailClaim ==
    [][\A code \in Codes, reply \in ProviderReplies :
          (/\ continue_with_google(code, reply)
           /\ Verified(reply)
           /\ reply.id_token.email = NoEmail) =>
              /\ resp'.status = "400"
              /\ resp'.stage \in {"raise_for_status", "id_token", "verify_oauth2_token", "email"}
              /\ resp'.conn = "none"
              /\ resp'.body = NoBody
              /\ store' = store]_vars

C10_OnlyVerifiedClaims ==
    [][resp'.op = "google" =>
          LET code == resp'.req.code
              reply == resp'.req.reply
          IN  (continue_with_google(code, reply) /\ ~Verified(reply)) =>
                  /\ resp'.stage \in {"raise_for_status", "id_token", "verify_oauth2_token"}
                  /\ resp'.status \in {"400", "500"}
                  /\ resp'.conn = "none"
                  /\ resp'.body = NoBody
                  /\ store' = store]_vars

\* An assertion with a bad signature was refused by verify_oauth2_token.
C10_Witness ==
    /\ resp.op = "google"
    /\ resp.req.reply.http_ok
    /\ resp.req.reply.id_token.present
    /\ ~resp.req.reply.id_token.sig_ok
    /\ resp.req.reply.id_token.email # NoEmail
    /\ resp.stage = "verify_oauth2_token"
    /\ resp.body = NoBody

\* C11: a signup whose email is unused but whose username is held by an
\* "email" record answers 400 Username already taken, and the table is unchanged.
C11_DuplicateUsername ==
    [][\A email \in Emails, username \in Usernames, password \in Passwords :
          (/\ signup(email, username, password)
           /\ ~is_email_exists(email, "email")
           /\ is_username_exists(username, "email")) =>
              /\ resp'.status = "400"
              /\ resp'.detail = "Username already taken"
              /\ store' = store]_vars

\* An error arises in the request that was answered by r: its token does not
\* validate, the provider's reply fails a step of the exchange, or the with
\* statement of its store section cannot be entered.
ErrorArises(r) ==
    \/ r.op \in {"verify_token", "refresh_token"} /\ ~validate_token(r.req.token, r.at).ok
    \/ r.op = "google" /\ ~Verified(r.req.reply)
    \/ r.op \in {"signup", "login", "google"} /\ ~ContextManagerProtocol(supabase_client)

IsError(r) == r.op # "none" /\ r.status \notin {"200", "201"}

\* C13: a request in which an error arises ends in an error, and a step that
\* ends a request in an error leaves the table as it was, last-active
\* included, and its answer carries no token and no user_uid.
C13_ErrorsAreTerminal ==
    [][/\ ErrorArises(resp') => IsError(resp')
       /\ IsError(resp') => (resp'.body = NoBody /\ store' = store)]_vars

\* A login for an existing record was answered with an error.
C13_Witness ==
    /\ resp.op = "login"
    /\ IsError(resp)
    /\ \E r \in store : r.email = resp.req.email /\ r.auth_provider = "email"
    /\ resp.at > 0

\* The token was minted for u as an access token, or as a refresh token, at
\* some time up to t.
MintedAsAccess(token, u, t) == \E t0 \in 0 .. t : token = create_access_token(u, t0)
MintedAsRefresh(token, u, t) == \E t0 \in 0 .. t : token = create_refresh_token(u, t0)

\* C14: a token minted for user u, as an access token or as a refresh token,
\* and not yet expired, is accepted by verify-token, which answers u, and by
\* refresh-token, which answers u with an access token minted for u at that
\* time and with the presented token as refresh_token.
C14_NoTokenKinds ==
    \A u \in StoredUids :
        (/\ resp.op \in {"verify_token", "refresh_token"}
         /\ (MintedAsAccess(resp.req.token, u, resp.at)
                \/ MintedAsRefresh(resp.req.token, u, resp.at))
         /\ resp.at <= resp.req.token.exp) =>
            /\ resp.status = "200"
            /\ resp.body.user_uid = u
            /\ resp.op = "refresh_token" =>
                  /\ resp.body.access_token = create_access_token(u, resp.at)
                  /\ resp.body.refresh_token = resp.req.token

\* refresh-token accepted a token that can only have been minted as an access token.
C14_Witness ==
    /\ resp.op = "refresh_token"
    /\ resp.status = "200"
    /\ \E u \in StoredUids :
          /\ MintedAsAccess(resp.req.token, u, resp.at)
          /\ ~MintedAsRefresh(resp.req.token, u, resp.at)
          /\ resp.body.refresh_token = resp.req.token
          /\ resp.body.user_uid = u

\* The fields of a record that identify it: all but last-active.
Identity(r) == [r EXCEPT !.last_active = 0]

\* C15: in every step each record of the table stays in the table with its
\* user_uid, email, username, password hash and provider (only last-active
\* may differ), and a verify-token or refresh-token step leaves the table as
\* it is and opens no store client.
C15_RecordsOnlyTouched ==
    [][/\ \A r \in store : \E q \in store' : Identity(q) = Identity(r)
       /\ resp'.op \in {"verify_token", "refresh_token"} =>
             LET token == resp'.req.token
             IN  (verify_token(token) \/ refresh_token(token)) =>
                     (store' = store /\ resp'.conn = "none")]_vars

\* A token of a user with a record was verified, later than the record's last-active.
C15_Witness ==
    /\ resp.op = "verify_token"
    /\ resp.status = "200"
    /\ \E r \in store : r.user_uid = resp.body.user_uid /\ r.last_active < resp.at

====
